---- MODULE Spec2Model ----
(***************************************************************************)
(* A model of src/core/ngx_regex.c: the compiler (ngx_regex_compile), the  *)
(* array executor (ngx_regex_exec_array), the batch optimizer              *)
(* (ngx_regex_module_init), the teardown callback (ngx_pcre_free_studies)  *)
(* and the pcre_jit option (ngx_regex_create_conf, ngx_regex_init_conf,    *)
(* ngx_regex_pcre_jit).                                                    *)
(*                                                                         *)
(* The regex engine, the allocator, the pool and the list container are    *)
(* outside the file: their results are inputs chosen with \E.              *)
(***************************************************************************)
EXTENDS Integers, Sequences, FiniteSets, TLC

(***************************************************************************)
(* Bounds of the model.                                                    *)
(***************************************************************************)
MaxGen == 2            \* configuration generations (cycles)
MaxHandles == 2        \* successful pcre2_compile calls
MaxCaps == 1           \* capture groups of a pattern
MaxTeardownRuns == 2   \* times one generation's teardown is triggered
MaxErrLen == 4         \* capacity of the error buffer, in message pieces
MaxPatterns == 3       \* length of the array given to ngx_regex_exec_array
MaxCalls == 2          \* calls of ngx_regex_exec_array one worker makes
MaxEntries == 9         \* entries of the registry the traversals are checked on

(***************************************************************************)
(* Program constants.                                                      *)
(***************************************************************************)
NGX_OK == 0
NGX_ERROR == -1
NGX_DECLINED == -5
NGX_CONF_UNSET == -1
NGX_CONF_OK == 0
NGX_REGEX_NO_MATCHED == -1
ListNalloc == 8

NULL == 0

Gens == 1..MaxGen

(***************************************************************************)
(* Patterns: the engine's view of a pattern text is its number of capture  *)
(* groups and of named groups.  The text itself is the record.             *)
(***************************************************************************)
Patterns == { p \in [caps : 0..MaxCaps, named : 0..MaxCaps] : p.named <= p.caps }

VARIABLES
    NGX_HAVE_PCRE_JIT,  \* build flag (#if), fixed for a run
    ngx_pcre_studies,   \* the process-wide registry pointer: NULL or a list
    lists,              \* lists[g]: the ngx_list_t created in g's pool (its parts)
    cycle,              \* cycle[g]: position of generation g in its life
    rcf,                \* rcf[g]: ngx_regex_conf_t.pcre_jit of generation g
    cleanup,            \* cleanup[g]: data of the handlers registered in g's pool
    runs,               \* runs[g]: times g's teardown has been triggered
    code,               \* code[h]: the engine's handle h (pcre2_code)
    rc,                 \* the compile request, as left by the last call
    ret,                \* return value of the last operation
    log,                \* messages logged by the last operation
    calls,              \* engine calls made by the last operation, in order
    eng,                \* eng[h][s]: the engine's execute result on (h, s)
    a,                  \* the array of ngx_regex_elt_t given to exec_array
    w,                  \* w[t]: worker t's call of ngx_regex_exec_array
    seen                \* outcomes returned so far, per input

lifeVars == <<NGX_HAVE_PCRE_JIT, ngx_pcre_studies, lists, cycle, rcf, cleanup,
              runs, code, rc, ret, log, calls>>
execVars == <<eng, a, w, seen>>
vars == <<NGX_HAVE_PCRE_JIT, ngx_pcre_studies, lists, cycle, rcf, cleanup,
          runs, code, rc, ret, log, calls, eng, a, w, seen>>

(***************************************************************************)
(* Helpers outside the file: ngx_snprintf, ngx_list_create, ngx_list_push. *)
(***************************************************************************)
Min(x, y) == IF x <= y THEN x ELSE y

\* ngx_snprintf(buf, max, fmt, ...): the formatted message, cut to max.
\* A message is the sequence of its pieces (literal text and conversions).
ngx_snprintf(max, msg) == SubSeq(msg, 1, Min(max, Len(msg)))

\* ngx_list_create(pool, n, size): one part, empty.
ngx_list_create == << <<>> >>

\* ngx_list_push(l) followed by the stores into the new element.
ngx_list_push(l, elt) ==
    IF Len(l[Len(l)]) = ListNalloc
    THEN Append(l, <<elt>>)
    ELSE [l EXCEPT ![Len(l)] = Append(@, elt)]

\* The entries of a list, in append order.
RECURSIVE Flat(_)
Flat(l) == IF l = <<>> THEN <<>> ELSE Head(l) \o Flat(Tail(l))

(***************************************************************************)
(* A call out of the file, as recorded in calls: the function (for         *)
(* pcre2_pattern_info, the item queried), its argument and its result.     *)
(***************************************************************************)
Call(op, arg, res) == [op |-> op, arg |-> arg, res |-> res]

(***************************************************************************)
(* The engine's answers about a pattern text.                              *)
(***************************************************************************)
\* rc->pattern.data: the text stands for itself
Text(p) == p
NameEntrySize(p) == p.named + 3

\* results of pcre2_pattern_info: 0, or a negative error code
PatternInfoResults == {0, -34}

(***************************************************************************)
(* ngx_regex_compile                                                       *)
(***************************************************************************)
\* the error messages, by format
CompileFailedMsg(p, atEnd) ==
    IF atEnd
    THEN <<"pcre2_compile() failed: ", "errstr", " in ", Text(p)>>
    ELSE <<"pcre2_compile() failed: ", "errstr", " in ", Text(p), " at ", "suffix">>

InfoFailedMsg(p, query, n) == <<"pcre2_pattern_info(", Text(p), query, n>>

NoMemoryMsg(p) == <<"regex ", Text(p), " compilation failed: no memory">>

\* CaptureInfo without the test of line 141 on the name-entry-size query
CaptureInfo_unchecked_entrysize(r, h, max, q) ==
    LET p == r.pattern
        failed(r1, cs) ==
            LET c == cs[Len(cs)]
                err == ngx_snprintf(max, InfoFailedMsg(p, c.op, c.res))
            IN  [rc |-> [r1 EXCEPT !.err = err], ret |-> NGX_ERROR,
                 calls |-> Append(cs, Call("ngx_snprintf", max, Len(err)))]
        ok(r1, cs) == [rc |-> r1, ret |-> NGX_OK, calls |-> cs]
        c1 == <<Call("PCRE2_INFO_CAPTURECOUNT", h, q[1])>>
        c2 == Append(c1, Call("PCRE2_INFO_NAMECOUNT", h, q[2]))
        c3 == Append(c2, Call("PCRE2_INFO_NAMEENTRYSIZE", h, q[3]))
        c4 == Append(c3, Call("PCRE2_INFO_NAMETABLE", h, q[4]))
        r1 == [r EXCEPT !.captures = p.caps]
        r2 == [r1 EXCEPT !.named_captures = p.named]
        r3 == [r2 EXCEPT !.name_size = IF q[3] < 0 THEN @ ELSE NameEntrySize(p)]
        r4 == [r3 EXCEPT !.names = h]
    IN  IF q[1] < 0 THEN failed(r, c1)
        ELSE IF r1.captures = 0 THEN ok(r1, c1)
        ELSE IF q[2] < 0 THEN failed(r1, c2)
        ELSE IF r2.named_captures = 0 THEN ok(r2, c2)
        ELSE IF q[4] < 0 THEN failed(r3, c4)
        ELSE ok(r4, c4)

\* lines 120-158: the metadata queries on handle h, in order.
\* q[k] is the engine's return value for the k-th query, were it issued.
CaptureInfo(r, h, max, q) ==
    LET p == r.pattern
        failed(r1, cs) ==
            LET c == cs[Len(cs)]
                err == ngx_snprintf(max, InfoFailedMsg(p, c.op, c.res))
            IN  [rc |-> [r1 EXCEPT !.err = err], ret |-> NGX_ERROR,
                 calls |-> Append(cs, Call("ngx_snprintf", max, Len(err)))]
        ok(r1, cs) == [rc |-> r1, ret |-> NGX_OK, calls |-> cs]
        c1 == <<Call("PCRE2_INFO_CAPTURECOUNT", h, q[1])>>
        c2 == Append(c1, Call("PCRE2_INFO_NAMECOUNT", h, q[2]))
        c3 == Append(c2, Call("PCRE2_INFO_NAMEENTRYSIZE", h, q[3]))
        c4 == Append(c3, Call("PCRE2_INFO_NAMETABLE", h, q[4]))
        r1 == [r EXCEPT !.captures = p.caps]
        r2 == [r1 EXCEPT !.named_captures = p.named]
        r3 == [r2 EXCEPT !.name_size = NameEntrySize(p)]
        r4 == [r3 EXCEPT !.names = h]
    IN  IF q[1] < 0 THEN failed(r, c1)
        ELSE IF r1.captures = 0 THEN ok(r1, c1)
        ELSE IF q[2] < 0 THEN failed(r1, c2)
        ELSE IF r2.named_captures = 0 THEN ok(r2, c2)
        ELSE IF q[3] < 0 THEN failed(r2, c3)
        ELSE IF q[4] < 0 THEN failed(r3, c4)
        ELSE ok(r4, c4)

\* a fresh request, as ngx_memzero leaves it, for pattern p
ZeroRc(p) == [pattern |-> p, regex |-> NULL, captures |-> 0, named_captures |-> 0,
              name_size |-> 0, names |-> NULL, err |-> <<>>]

\* the engine's new handle, compiled for generation g
NewCode(g) == [gen |-> g, frees |-> 0, jit |-> FALSE]

\* ngx_regex_compile with line 116 reading rc->regex before line 102 sets it
ngx_regex_compile_stale_regex(r, g, max, reOK, atEnd, allocOK, pushOK, q) ==
    LET p == r.pattern
        h == Len(code) + 1
        code1 == Append(code, NewCode(g))
        c0 == <<Call("pcre2_compile", 0, IF reOK THEN h ELSE NULL)>>
        c1 == Append(c0, Call("ngx_pcalloc", 0, IF allocOK THEN 1 ELSE NULL))
        c2 == IF ngx_pcre_studies # NULL
              THEN Append(c1, Call("ngx_list_push", ngx_pcre_studies,
                                   IF pushOK THEN 1 ELSE NULL))
              ELSE c1
        nomem(r1, cs) ==
            LET err == ngx_snprintf(max, NoMemoryMsg(p))
            IN  [rc |-> [r1 EXCEPT !.err = err], ret |-> NGX_ERROR,
                 calls |-> Append(cs, Call("ngx_snprintf", max, Len(err))),
                 code |-> code1, lists |-> lists]
        r1 == [r EXCEPT !.regex = h]
        lists1 == IF ngx_pcre_studies # NULL
                  THEN [lists EXCEPT ![ngx_pcre_studies] =
                            ngx_list_push(@, [regex |-> r.regex, name |-> Text(p)])]
                  ELSE lists
        info == CaptureInfo(r1, h, max, q)
    IN  IF ~reOK
        THEN LET err == ngx_snprintf(max, CompileFailedMsg(p, atEnd))
             IN  [rc |-> [r EXCEPT !.err = err], ret |-> NGX_ERROR,
                  calls |-> Append(c0, Call("ngx_snprintf", max, Len(err))),
                  code |-> code, lists |-> lists]
        ELSE IF ~allocOK THEN nomem([r EXCEPT !.regex = NULL], c1)
        ELSE IF ngx_pcre_studies # NULL /\ ~pushOK THEN nomem(r1, c2)
        ELSE [rc |-> info.rc, ret |-> info.ret, calls |-> c2 \o info.calls,
              code |-> code1, lists |-> lists1]

\* lines 69-167.  r: the request on entry; g: the generation compiling;
\* max: rc->err.len on entry; reOK, atEnd: the result of pcre2_compile;
\* allocOK: of ngx_pcalloc; pushOK: of ngx_list_push; q: of the queries.
\* The result: the request on return, the return value, the calls made,
\* and the handles and lists after the call.
ngx_regex_compile(r, g, max, reOK, atEnd, allocOK, pushOK, q) ==
    LET p == r.pattern
        h == Len(code) + 1
        code1 == Append(code, NewCode(g))
        c0 == <<Call("pcre2_compile", 0, IF reOK THEN h ELSE NULL)>>
        c1 == Append(c0, Call("ngx_pcalloc", 0, IF allocOK THEN 1 ELSE NULL))
        c2 == IF ngx_pcre_studies # NULL
              THEN Append(c1, Call("ngx_list_push", ngx_pcre_studies,
                                   IF pushOK THEN 1 ELSE NULL))
              ELSE c1
        nomem(r1, cs) ==
            LET err == ngx_snprintf(max, NoMemoryMsg(p))
            IN  [rc |-> [r1 EXCEPT !.err = err], ret |-> NGX_ERROR,
                 calls |-> Append(cs, Call("ngx_snprintf", max, Len(err))),
                 code |-> code1, lists |-> lists]
        r1 == [r EXCEPT !.regex = h]
        lists1 == IF ngx_pcre_studies # NULL
                  THEN [lists EXCEPT ![ngx_pcre_studies] =
                            ngx_list_push(@, [regex |-> h, name |-> Text(p)])]
                  ELSE lists
        info == CaptureInfo(r1, h, max, q)
    IN  IF ~reOK
        THEN LET err == ngx_snprintf(max, CompileFailedMsg(p, atEnd))
             IN  [rc |-> [r EXCEPT !.err = err], ret |-> NGX_ERROR,
                  calls |-> Append(c0, Call("ngx_snprintf", max, Len(err))),
                  code |-> code, lists |-> lists]
        ELSE IF ~allocOK THEN nomem([r EXCEPT !.regex = NULL], c1)
        ELSE IF ngx_pcre_studies # NULL /\ ~pushOK THEN nomem(r1, c2)
        ELSE [rc |-> info.rc, ret |-> info.ret, calls |-> c2 \o info.calls,
              code |-> code1, lists |-> lists1]

(***************************************************************************)
(* ngx_pcre_free_studies                                                   *)
(***************************************************************************)
\* pcre2_code_free(h): the handle and its JIT code are released
pcre2_code_free(cd, h) == [cd EXCEPT ![h].frees = @ + 1, ![h].jit = FALSE]

\* FreeStudiesLoop leaving the loop at the end of the first part
RECURSIVE FreeStudiesLoop_first_part(_, _, _, _, _)
FreeStudiesLoop_first_part(l, k, i, cd, cs) ==
    LET adv == i > Len(l[k])
        h == l[k][i].regex
    IN  IF adv
        THEN [code |-> cd, calls |-> cs]
        ELSE FreeStudiesLoop_first_part(l, k, i + 1, pcre2_code_free(cd, h),
                                        Append(cs, Call("pcre2_code_free", h, 0)))

\* lines 215-228: the loop, at element i of part k of list l (from 1);
\* cd: the handles so far, cs: the calls made so far.
RECURSIVE FreeStudiesLoop(_, _, _, _, _)
FreeStudiesLoop(l, k, i, cd, cs) ==
    LET adv == i > Len(l[k])
        k1 == IF adv THEN k + 1 ELSE k
        i1 == IF adv THEN 1 ELSE i
        h == l[k1][i1].regex
    IN  IF adv /\ k = Len(l)
        THEN [code |-> cd, calls |-> cs]
        ELSE FreeStudiesLoop(l, k1, i1 + 1, pcre2_code_free(cd, h),
                             Append(cs, Call("pcre2_code_free", h, 0)))

\* ngx_pcre_free_studies walking the list ngx_pcre_studies designates when
\* it runs, when there is one, in place of the list given as data
ngx_pcre_free_studies_global(data) ==
    FreeStudiesLoop(lists[IF ngx_pcre_studies # NULL THEN ngx_pcre_studies ELSE data],
                    1, 1, code, <<>>)

\* lines 203-229, on the list data
ngx_pcre_free_studies(data) == FreeStudiesLoop(lists[data], 1, 1, code, <<>>)

(***************************************************************************)
(* ngx_regex_module_init                                                   *)
(***************************************************************************)
\* the informational message of line 283
JitInfo(name) == [level |-> "info",
                  msg |-> "JIT compiler does not support pattern", arg |-> name]

\* the result n of pcre2_jit_compile(h): 0 unless the engine refuses h
JitResult(h, refused) == IF h \in refused THEN -45 ELSE 0

\* pcre2_jit_compile(h): on success the handle carries JIT code
pcre2_jit_compile(cd, h, refused) ==
    [cd EXCEPT ![h].jit = @ \/ JitResult(h, refused) = 0]

\* JitLoop leaving the loop at the first pattern the engine refuses
RECURSIVE JitLoop_stop_on_failure(_, _, _, _, _, _)
JitLoop_stop_on_failure(l, k, i, pcre_jit, refused, st) ==
    LET adv == i > Len(l[k])
        k1 == IF adv THEN k + 1 ELSE k
        i1 == IF adv THEN 1 ELSE i
        e == l[k1][i1]
        n == JitResult(e.regex, refused)
        st1 == IF pcre_jit # 0
               THEN [code |-> pcre2_jit_compile(st.code, e.regex, refused),
                     calls |-> Append(st.calls, Call("pcre2_jit_compile", e.regex, n)),
                     log |-> IF n # 0
                             THEN Append(st.log, JitInfo(e.name))
                             ELSE st.log]
               ELSE st
    IN  IF adv /\ k = Len(l)
        THEN st
        ELSE IF pcre_jit # 0 /\ n # 0
        THEN st1
        ELSE JitLoop_stop_on_failure(l, k1, i1 + 1, pcre_jit, refused, st1)

\* lines 264-289: the loop, at element i of part k of list l (from 1)
RECURSIVE JitLoop(_, _, _, _, _, _)
JitLoop(l, k, i, pcre_jit, refused, st) ==
    LET adv == i > Len(l[k])
        k1 == IF adv THEN k + 1 ELSE k
        i1 == IF adv THEN 1 ELSE i
        e == l[k1][i1]
        n == JitResult(e.regex, refused)
        st1 == IF pcre_jit # 0
               THEN [code |-> pcre2_jit_compile(st.code, e.regex, refused),
                     calls |-> Append(st.calls, Call("pcre2_jit_compile", e.regex, n)),
                     log |-> IF n # 0
                             THEN Append(st.log, JitInfo(e.name))
                             ELSE st.log]
               ELSE st
    IN  IF adv /\ k = Len(l)
        THEN st
        ELSE JitLoop(l, k1, i1 + 1, pcre_jit, refused, st1)

\* ngx_regex_module_init testing cln after the loop and line 291
ngx_regex_module_init_late_test(g, clnOK, refused) ==
    LET pcre_jit == IF NGX_HAVE_PCRE_JIT THEN rcf[g] ELSE 0
        c0 == <<Call("ngx_pool_cleanup_add", g, IF clnOK THEN 1 ELSE NULL)>>
        st == JitLoop(lists[ngx_pcre_studies], 1, 1, pcre_jit, refused,
                      [code |-> code, calls |-> c0, log |-> <<>>])
    IN  IF ~clnOK
        THEN [ret |-> NGX_ERROR, cleanup |-> cleanup, code |-> st.code,
              calls |-> st.calls, log |-> st.log, studies |-> NULL]
        ELSE [ret |-> NGX_OK,
              cleanup |-> [cleanup EXCEPT ![g] = Append(@, ngx_pcre_studies)],
              code |-> st.code, calls |-> st.calls, log |-> st.log,
              studies |-> NULL]

\* ngx_regex_module_init without line 291
ngx_regex_module_init_keeps_pointer(g, clnOK, refused) ==
    LET pcre_jit == IF NGX_HAVE_PCRE_JIT THEN rcf[g] ELSE 0
        c0 == <<Call("ngx_pool_cleanup_add", g, IF clnOK THEN 1 ELSE NULL)>>
        st == JitLoop(lists[ngx_pcre_studies], 1, 1, pcre_jit, refused,
                      [code |-> code, calls |-> c0, log |-> <<>>])
    IN  IF ~clnOK
        THEN [ret |-> NGX_ERROR, cleanup |-> cleanup, code |-> code,
              calls |-> c0, log |-> <<>>, studies |-> ngx_pcre_studies]
        ELSE [ret |-> NGX_OK,
              cleanup |-> [cleanup EXCEPT ![g] = Append(@, ngx_pcre_studies)],
              code |-> st.code, calls |-> st.calls, log |-> st.log,
              studies |-> ngx_pcre_studies]

\* lines 232-294.  g: the cycle; clnOK: the result of ngx_pool_cleanup_add;
\* refused: the handles pcre2_jit_compile fails on.
ngx_regex_module_init(g, clnOK, refused) ==
    LET pcre_jit == IF NGX_HAVE_PCRE_JIT THEN rcf[g] ELSE 0
        c0 == <<Call("ngx_pool_cleanup_add", g, IF clnOK THEN 1 ELSE NULL)>>
        st == JitLoop(lists[ngx_pcre_studies], 1, 1, pcre_jit, refused,
                      [code |-> code, calls |-> c0, log |-> <<>>])
    IN  IF ~clnOK
        THEN [ret |-> NGX_ERROR, cleanup |-> cleanup, code |-> code,
              calls |-> c0, log |-> <<>>, studies |-> ngx_pcre_studies]
        ELSE [ret |-> NGX_OK,
              cleanup |-> [cleanup EXCEPT ![g] = Append(@, ngx_pcre_studies)],
              code |-> st.code, calls |-> st.calls, log |-> st.log,
              studies |-> NULL]

(***************************************************************************)
(* The pcre_jit option                                                     *)
(***************************************************************************)
ConfWarn(text) == [level |-> "warn", msg |-> text, arg |-> ""]

\* ngx_regex_pcre_jit with the test of line 345 as r != 0 && jit != 1
ngx_regex_pcre_jit_and(fp, r, jitv) ==
    LET jit == IF r = 0 THEN jitv ELSE 0
    IN  IF fp = 0
        THEN [fp |-> fp, ret |-> NGX_CONF_OK, log |-> <<>>, calls |-> <<>>]
        ELSE IF NGX_HAVE_PCRE_JIT
        THEN IF r # 0 /\ jit # 1
             THEN [fp |-> 0, ret |-> NGX_CONF_OK,
                   log |-> <<ConfWarn("PCRE library does not support JIT")>>,
                   calls |-> <<Call("pcre2_config", jit, r)>>]
             ELSE [fp |-> fp, ret |-> NGX_CONF_OK, log |-> <<>>,
                   calls |-> <<Call("pcre2_config", jit, r)>>]
        ELSE [fp |-> 0, ret |-> NGX_CONF_OK,
              log |-> <<ConfWarn("nginx was built without PCRE JIT support")>>,
              calls |-> <<>>]

\* lines 329-358.  fp: the flag on entry; r: the result of pcre2_config;
\* jitv: the value pcre2_config stores when it succeeds.
ngx_regex_pcre_jit(fp, r, jitv) ==
    LET jit == IF r = 0 THEN jitv ELSE 0
    IN  IF fp = 0
        THEN [fp |-> fp, ret |-> NGX_CONF_OK, log |-> <<>>, calls |-> <<>>]
        ELSE IF NGX_HAVE_PCRE_JIT
        THEN IF r # 0 \/ jit # 1
             THEN [fp |-> 0, ret |-> NGX_CONF_OK,
                   log |-> <<ConfWarn("PCRE library does not support JIT")>>,
                   calls |-> <<Call("pcre2_config", jit, r)>>]
             ELSE [fp |-> fp, ret |-> NGX_CONF_OK, log |-> <<>>,
                   calls |-> <<Call("pcre2_config", jit, r)>>]
        ELSE [fp |-> 0, ret |-> NGX_CONF_OK,
              log |-> <<ConfWarn("nginx was built without PCRE JIT support")>>,
              calls |-> <<>>]

\* ngx_conf_init_value(conf, default), line 323
ngx_conf_init_value(conf, default) == IF conf = NGX_CONF_UNSET THEN default ELSE conf

(***************************************************************************)
(* The state machine of the configuration generations                      *)
(***************************************************************************)
Alive(g) == cycle[g] \in {"created", "parsed", "inited"}
Loading(g) == cycle[g] \in {"created", "parsed", "failed"}

Workers == {1, 2}
Inputs == {"s1", "s2"}
\* no compile request is at hand: the caller of the last one has returned
NoRc == ZeroRc([caps |-> 0, named |-> 0])

Idle == [pc |-> "idle", s |-> "", i |-> 0, ret |-> NGX_OK,
         invoked |-> <<>>, alerts |-> <<>>, count |-> 0]

Init ==
    /\ NGX_HAVE_PCRE_JIT \in BOOLEAN
    /\ ngx_pcre_studies = NULL
    /\ lists = [g \in Gens |-> <<>>]
    /\ cycle = [g \in Gens |-> "none"]
    /\ rcf = [g \in Gens |-> NGX_CONF_UNSET]
    /\ cleanup = [g \in Gens |-> <<>>]
    /\ runs = [g \in Gens |-> 0]
    /\ code = <<>>
    /\ rc = NoRc
    /\ ret = NGX_OK
    /\ log = <<>>
    /\ calls = <<>>
    /\ eng = <<>>
    /\ a = <<>>
    /\ w = [t \in Workers |-> Idle]
    /\ seen = {}

\* ngx_regex_create_conf, lines 297-315: a new generation starts loading.
\* The host loads one generation at a time, in order.
create_conf(g, rcfOK, listOK) ==
    /\ cycle[g] = "none"
    /\ \A o \in Gens : ~Loading(o) /\ (o < g => cycle[o] # "none")
    /\ IF ~rcfOK
       THEN /\ cycle' = [cycle EXCEPT ![g] = "failed"]
            /\ UNCHANGED <<rcf, ngx_pcre_studies, lists>>
       ELSE /\ rcf' = [rcf EXCEPT ![g] = NGX_CONF_UNSET]
            /\ IF listOK
               THEN /\ lists' = [lists EXCEPT ![g] = ngx_list_create]
                    /\ ngx_pcre_studies' = g
                    /\ cycle' = [cycle EXCEPT ![g] = "created"]
               ELSE /\ ngx_pcre_studies' = NULL
                    /\ cycle' = [cycle EXCEPT ![g] = "failed"]
                    /\ UNCHANGED lists
    /\ ret' = NGX_OK
    /\ log' = <<>>
    /\ calls' = <<>>
    /\ UNCHANGED <<NGX_HAVE_PCRE_JIT, cleanup, runs, code, execVars>>
    /\ rc' = NoRc

\* the pcre_jit directive: ngx_conf_set_flag_slot stores the flag, then the
\* post handler ngx_regex_pcre_jit validates it.
pcre_jit(g, flag, r, jitv) ==
    /\ cycle[g] = "created"
    /\ rcf[g] = NGX_CONF_UNSET
    /\ LET res == ngx_regex_pcre_jit(flag, r, jitv)
       IN  /\ rcf' = [rcf EXCEPT ![g] = res.fp]
           /\ ret' = res.ret
           /\ log' = res.log
           /\ calls' = res.calls
    /\ UNCHANGED <<NGX_HAVE_PCRE_JIT, ngx_pcre_studies, lists, cycle, cleanup,
                   runs, code, execVars>>
    /\ rc' = NoRc

\* ngx_regex_init_conf, lines 318-326
init_conf(g) ==
    /\ cycle[g] = "created"
    /\ rcf' = [rcf EXCEPT ![g] = ngx_conf_init_value(@, 0)]
    /\ cycle' = [cycle EXCEPT ![g] = "parsed"]
    /\ ret' = NGX_CONF_OK
    /\ log' = <<>>
    /\ calls' = <<>>
    /\ UNCHANGED <<NGX_HAVE_PCRE_JIT, ngx_pcre_studies, lists, cleanup, runs,
                   code, execVars>>
    /\ rc' = NoRc

\* The results the engine and the allocator can give one call of
\* ngx_regex_compile.  A query after the first failing one is never issued,
\* so at most one entry of q fails.
QueryResults == { q \in [1..4 -> PatternInfoResults] :
                    \A j, k \in 1..4 : q[j] < 0 /\ q[k] < 0 => j = k }
AllOk == [k \in 1..4 |-> 0]
CompileResults ==
    { [reOK |-> FALSE, atEnd |-> e, allocOK |-> TRUE, pushOK |-> TRUE, q |-> AllOk] :
        e \in BOOLEAN }
    \cup { [reOK |-> TRUE, atEnd |-> TRUE, allocOK |-> FALSE, pushOK |-> TRUE, q |-> AllOk],
           [reOK |-> TRUE, atEnd |-> TRUE, allocOK |-> TRUE, pushOK |-> FALSE, q |-> AllOk] }
    \cup { [reOK |-> TRUE, atEnd |-> TRUE, allocOK |-> TRUE, pushOK |-> TRUE, q |-> qr] :
        qr \in QueryResults }

\* a call of ngx_regex_compile made for generation g with the request r,
\* whose error buffer has room for max pieces of a message
CompileCall(g, r, max, e) ==
    /\ Alive(g)
    /\ e.reOK => Len(code) < MaxHandles
    /\ e.pushOK \/ ngx_pcre_studies # NULL
    /\ LET res == ngx_regex_compile(r, g, max, e.reOK, e.atEnd, e.allocOK,
                                    e.pushOK, e.q)
       IN  /\ rc' = res.rc
           /\ ret' = res.ret
           /\ calls' = res.calls
           /\ code' = res.code
           /\ lists' = res.lists
    /\ log' = <<>>
    /\ UNCHANGED <<NGX_HAVE_PCRE_JIT, ngx_pcre_studies, cycle, rcf, cleanup,
                   runs, execVars>>

\* as the configuration parser calls it: a zeroed request, a full buffer
Compile(g) ==
    \E p \in Patterns, e \in CompileResults :
        CompileCall(g, ZeroRc(p), MaxErrLen, e)

\* as any caller may call it: the request holds what the last call left
\* in it, unless the caller has zeroed it; the buffer is of any size
CompileAny(g) ==
    \E p \in Patterns, max \in 0..MaxErrLen, e \in CompileResults :
        CompileCall(g, [rc EXCEPT !.pattern = p, !.err = <<>>], max, e)

\* the caller zeroes its request: ngx_memzero(&rc, sizeof(ngx_regex_compile_t))
ngx_memzero ==
    /\ rc # NoRc
    /\ rc' = NoRc
    /\ ret' = NGX_OK
    /\ log' = <<>>
    /\ calls' = <<>>
    /\ UNCHANGED <<NGX_HAVE_PCRE_JIT, ngx_pcre_studies, lists, cycle, rcf,
                   cleanup, runs, code, execVars>>

\* ngx_regex_module_init for generation g, after its configuration is parsed
module_init(g) ==
    /\ cycle[g] = "parsed"
    /\ \E clnOK \in BOOLEAN, refused \in SUBSET (1..Len(code)) :
        LET res == ngx_regex_module_init(g, clnOK, refused)
        IN  /\ ret' = res.ret
            /\ cleanup' = res.cleanup
            /\ code' = res.code
            /\ calls' = res.calls
            /\ log' = res.log
            /\ ngx_pcre_studies' = res.studies
            /\ cycle' = [cycle EXCEPT ![g] =
                            IF res.ret = NGX_OK THEN "inited" ELSE "failed"]
    /\ UNCHANGED <<NGX_HAVE_PCRE_JIT, lists, rcf, runs, execVars>>
    /\ rc' = NoRc

\* the handlers registered in g's pool run, in turn
RunCleanup(g) ==
    IF cleanup[g] = <<>>
    THEN [code |-> code, calls |-> <<>>]
    ELSE ngx_pcre_free_studies(cleanup[g][1])

\* the host retires generation g (or abandons its load): ngx_destroy_pool
destroy_pool(g) ==
    /\ Alive(g) \/ cycle[g] = "failed"
    /\ LET res == RunCleanup(g)
       IN  /\ code' = res.code
           /\ calls' = res.calls
    /\ cycle' = [cycle EXCEPT ![g] = "destroyed"]
    /\ runs' = [runs EXCEPT ![g] = @ + 1]
    /\ ret' = NGX_OK
    /\ log' = <<>>
    /\ UNCHANGED <<NGX_HAVE_PCRE_JIT, ngx_pcre_studies, lists, rcf, cleanup,
                   execVars>>
    /\ rc' = NoRc

\* the teardown of a retired generation is triggered once more
teardown_again(g) ==
    /\ cycle[g] = "destroyed"
    /\ cleanup[g] # <<>>
    /\ runs[g] < MaxTeardownRuns
    /\ LET res == RunCleanup(g)
       IN  /\ code' = res.code
           /\ calls' = res.calls
    /\ runs' = [runs EXCEPT ![g] = @ + 1]
    /\ ret' = NGX_OK
    /\ log' = <<>>
    /\ UNCHANGED <<NGX_HAVE_PCRE_JIT, ngx_pcre_studies, lists, cycle, rcf,
                   cleanup, execVars>>
    /\ rc' = NoRc

\* The generations of a process: loads, reloads, abandoned loads, retirement.
\* The pcre_jit directive is left out here (NextJit has it), so every
\* generation runs with the default, pcre_jit off.
Next ==
    \/ \E g \in Gens, rcfOK \in BOOLEAN, listOK \in BOOLEAN : create_conf(g, rcfOK, listOK)
    \/ \E g \in Gens : init_conf(g)
    \/ \E g \in Gens : Compile(g)
    \/ \E g \in Gens : module_init(g)
    \/ \E g \in Gens : destroy_pool(g)
    \/ \E g \in Gens : teardown_again(g)

Spec == Init /\ [][Next]_vars

\* one generation, with the pcre_jit directive and the JIT pass
NextJit ==
    \/ \E rcfOK \in BOOLEAN, listOK \in BOOLEAN : create_conf(1, rcfOK, listOK)
    \/ \E flag \in {0, 1}, r \in {0, -34}, jitv \in {0, 1} : pcre_jit(1, flag, r, jitv)
    \/ init_conf(1)
    \/ Compile(1)
    \/ module_init(1)
    \/ destroy_pool(1)

SpecJit == Init /\ [][NextJit]_vars

\* one generation, with every way of calling ngx_regex_compile
NextCompile ==
    \/ \E rcfOK \in BOOLEAN, listOK \in BOOLEAN : create_conf(1, rcfOK, listOK)
    \/ init_conf(1)
    \/ ngx_memzero
    \/ CompileAny(1)
    \/ module_init(1)

SpecCompile == Init /\ [][NextCompile]_vars

\* the registry after n calls of ngx_regex_compile that appended to it
RECURSIVE ListOf(_)
ListOf(n) ==
    IF n = 0
    THEN ngx_list_create
    ELSE ngx_list_push(ListOf(n - 1),
                       [regex |-> n, name |-> Text([caps |-> 0, named |-> 0])])

\* generation 1 with its configuration parsed: n patterns in the registry,
\* and k handles left outside it by compile calls that ran out of memory
InitList ==
    /\ NGX_HAVE_PCRE_JIT \in BOOLEAN
    /\ ngx_pcre_studies = 1
    /\ \E n \in 0..MaxEntries, k \in 0..1 :
          /\ lists = [g \in Gens |-> IF g = 1 THEN ListOf(n) ELSE <<>>]
          /\ code = [h \in 1..(n + k) |-> NewCode(1)]
    /\ cycle = [g \in Gens |-> IF g = 1 THEN "parsed" ELSE "none"]
    /\ \E j \in {0, 1} :
          /\ j = 1 => NGX_HAVE_PCRE_JIT
          /\ rcf = [g \in Gens |-> IF g = 1 THEN j ELSE NGX_CONF_UNSET]
    /\ cleanup = [g \in Gens |-> <<>>]
    /\ runs = [g \in Gens |-> 0]
    /\ rc = NoRc
    /\ ret = NGX_OK
    /\ log = <<>>
    /\ calls = <<>>
    /\ eng = <<>>
    /\ a = <<>>
    /\ w = [t \in Workers |-> Idle]
    /\ seen = {}

\* the JIT pass and the teardown of generation 1 on registries of every size
NextList ==
    \/ module_init(1)
    \/ destroy_pool(1)

SpecList == InitList /\ [][NextList]_vars

(***************************************************************************)
(* ngx_regex_exec_array                                                    *)
(***************************************************************************)
\* results of the engine's execute call: an error, no match, and matches
EngineResults == {-2, -1, 0, 1}

\* the alert of line 188
ExecAlert(n, s, name) == [level |-> "alert", n |-> n, s |-> s, name |-> name]

\* exec_array_turn without the return of line 196: a match falls through
\* to the next element
exec_array_turn_no_return(st, nelts, n, name) ==
    IF ~(st.i < nelts)
    THEN [st EXCEPT !.pc = "done", !.ret = NGX_DECLINED]
    ELSE LET st1 == [st EXCEPT !.invoked = Append(@, st.i)]
         IN  IF n = NGX_REGEX_NO_MATCHED
             THEN [st1 EXCEPT !.i = @ + 1]
             ELSE IF n < 0
             THEN [st1 EXCEPT !.pc = "done", !.ret = NGX_ERROR,
                              !.alerts = Append(@, ExecAlert(n, st.s, name))]
             ELSE [st1 EXCEPT !.i = @ + 1]

\* exec_array_turn without the return of line 191: an engine error is
\* logged and the loop goes on
exec_array_turn_error_goes_on(st, nelts, n, name) ==
    IF ~(st.i < nelts)
    THEN [st EXCEPT !.pc = "done", !.ret = NGX_DECLINED]
    ELSE LET st1 == [st EXCEPT !.invoked = Append(@, st.i)]
         IN  IF n = NGX_REGEX_NO_MATCHED
             THEN [st1 EXCEPT !.i = @ + 1]
             ELSE IF n < 0
             THEN [st1 EXCEPT !.i = @ + 1,
                              !.alerts = Append(@, ExecAlert(n, st.s, name))]
             ELSE [st1 EXCEPT !.pc = "done", !.ret = NGX_OK]

\* exec_array_turn with the loop bound off by one: i + 1 < a->nelts
exec_array_turn_short(st, nelts, n, name) ==
    IF ~(st.i + 1 < nelts)
    THEN [st EXCEPT !.pc = "done", !.ret = NGX_DECLINED]
    ELSE LET st1 == [st EXCEPT !.invoked = Append(@, st.i)]
         IN  IF n = NGX_REGEX_NO_MATCHED
             THEN [st1 EXCEPT !.i = @ + 1]
             ELSE IF n < 0
             THEN [st1 EXCEPT !.pc = "done", !.ret = NGX_ERROR,
                              !.alerts = Append(@, ExecAlert(n, st.s, name))]
             ELSE [st1 EXCEPT !.pc = "done", !.ret = NGX_OK]

\* lines 179-199: one turn of the loop in a call whose state is st (the
\* index i, from 0), on an array of nelts elements; n is what
\* ngx_regex_exec returns on re[i].regex, name is re[i].name.
exec_array_turn(st, nelts, n, name) ==
    IF ~(st.i < nelts)
    THEN [st EXCEPT !.pc = "done", !.ret = NGX_DECLINED]
    ELSE LET st1 == [st EXCEPT !.invoked = Append(@, st.i)]
         IN  IF n = NGX_REGEX_NO_MATCHED
             THEN [st1 EXCEPT !.i = @ + 1]
             ELSE IF n < 0
             THEN [st1 EXCEPT !.pc = "done", !.ret = NGX_ERROR,
                              !.alerts = Append(@, ExecAlert(n, st.s, name))]
             ELSE [st1 EXCEPT !.pc = "done", !.ret = NGX_OK]

\* the array of an exec_array caller: k compiled patterns of a loaded
\* generation, each with its source text
ArrayOf(k) == [i \in 1..k |-> [regex |-> i, name |-> [caps |-> i, named |-> 0]]]

\* a worker process after a configuration load of k patterns
InitExec ==
    /\ NGX_HAVE_PCRE_JIT = TRUE
    /\ ngx_pcre_studies = NULL
    /\ \E k \in 0..MaxPatterns :
        /\ a = ArrayOf(k)
        /\ code = [i \in 1..k |-> NewCode(1)]
        /\ lists = [g \in Gens |-> IF g = 1 THEN <<ArrayOf(k)>> ELSE <<>>]
    /\ cycle = [g \in Gens |-> IF g = 1 THEN "inited" ELSE "none"]
    /\ rcf = [g \in Gens |-> IF g = 1 THEN 0 ELSE NGX_CONF_UNSET]
    /\ cleanup = [g \in Gens |-> IF g = 1 THEN <<1>> ELSE <<>>]
    /\ runs = [g \in Gens |-> 0]
    /\ rc = NoRc
    /\ ret = NGX_OK
    /\ log = <<>>
    /\ calls = <<>>
    /\ eng = <<>>
    /\ w = [t \in Workers |-> Idle]
    /\ seen = {}

\* worker t calls ngx_regex_exec_array(a, s, log)
exec_array_call(t, s) ==
    /\ w[t].pc = "idle"
    /\ w[t].count < MaxCalls
    /\ w' = [w EXCEPT ![t] = [@ EXCEPT !.pc = "run", !.s = s, !.i = 0,
                                       !.invoked = <<>>, !.alerts = <<>>]]
    /\ UNCHANGED <<lifeVars, eng, a, seen>>

\* the engine's answer on (h, s): the one it gave before, or any
EngineAnswers(h, s) ==
    IF <<h, s>> \in DOMAIN eng THEN {eng[<<h, s>>]} ELSE EngineResults

\* exec_array_step with a matched element moved to the front of the array
exec_array_step_move_to_front(t) ==
    /\ w[t].pc = "run"
    /\ IF w[t].i < Len(a)
       THEN LET e == a[w[t].i + 1]
                rest == SelectSeq(a, LAMBDA x : x # e)
            IN  \E n \in EngineAnswers(e.regex, w[t].s) :
                  /\ eng' = (<<e.regex, w[t].s>> :> n) @@ eng
                  /\ w' = [w EXCEPT ![t] = exec_array_turn(@, Len(a), n, e.name)]
                  /\ a' = IF n >= 0 THEN <<e>> \o rest ELSE a
       ELSE /\ w' = [w EXCEPT ![t] = exec_array_turn(@, Len(a), 0, 0)]
            /\ UNCHANGED <<eng, a>>
    /\ UNCHANGED <<lifeVars, seen>>

\* worker t runs one turn of the loop
exec_array_step(t) ==
    /\ w[t].pc = "run"
    /\ IF w[t].i < Len(a)
       THEN LET e == a[w[t].i + 1]
            IN  \E n \in EngineAnswers(e.regex, w[t].s) :
                  /\ eng' = (<<e.regex, w[t].s>> :> n) @@ eng
                  /\ w' = [w EXCEPT ![t] = exec_array_turn(@, Len(a), n, e.name)]
       ELSE /\ w' = [w EXCEPT ![t] = exec_array_turn(@, Len(a), 0, 0)]
            /\ UNCHANGED eng
    /\ UNCHANGED <<lifeVars, a, seen>>

\* the call of worker t returns; its outcome is recorded
exec_array_return(t) ==
    /\ w[t].pc = "done"
    /\ seen' = seen \cup {<<w[t].s, w[t].ret>>}
    /\ w' = [w EXCEPT ![t] = [@ EXCEPT !.pc = "idle", !.count = @ + 1]]
    /\ UNCHANGED <<lifeVars, eng, a>>

NextExec ==
    \/ \E t \in Workers, s \in Inputs : exec_array_call(t, s)
    \/ \E t \in Workers : exec_array_step(t)
    \/ \E t \in Workers : exec_array_return(t)

SpecExec == InitExec /\ [][NextExec]_vars

(***************************************************************************)
(* Properties of ngx_regex_exec_array (under SpecExec)                     *)
(***************************************************************************)
\* What element i (from 1) of the array may report on input s: the answer
\* the engine gave if the element has been tried on s, any result if not.
\* A property stated for every n in Answers holds whatever the elements
\* not yet tried would report.
Answers(s, i) == EngineAnswers(a[i].regex, s)

\* the elements before element k (from 0) may all report NotMatched
NoneBefore(s, k) == \A j \in 1..k : NGX_REGEX_NO_MATCHED \in Answers(s, j)

\* the elements 0..k, in order
UpTo(k) == [j \in 1..(k + 1) |-> j - 1]

IsPrefix(x, y) == Len(x) <= Len(y) /\ x = SubSeq(y, 1, Len(x))

\* C1: when the first element whose outcome is not NotMatched is element k
\* and it matches, the call returns NGX_OK having invoked the executor once
\* on each of the elements 0..k, in order, and on no element after k,
\* whatever the later elements would report.
C1_ShortCircuitOnMatch ==
    \A t \in Workers : w[t].pc \in {"run", "done"} =>
        \A k \in 0..(Len(a) - 1) : \A n \in Answers(w[t].s, k + 1) :
            NoneBefore(w[t].s, k) /\ n # NGX_REGEX_NO_MATCHED /\ n >= 0 =>
                /\ IsPrefix(w[t].invoked, UpTo(k))
                /\ w[t].pc = "done" =>
                      w[t].ret = NGX_OK /\ w[t].invoked = UpTo(k)

\* A does not match, B matches, C is never invoked
C1_Witness ==
    \E t \in Workers :
        /\ w[t].pc = "done" /\ w[t].ret = NGX_OK
        /\ Len(a) = 3 /\ w[t].invoked = <<0, 1>>
        /\ <<a[3].regex, w[t].s>> \notin DOMAIN eng

\* C2: when the first element whose outcome is not NotMatched is element k
\* and it is an engine error, the call returns NGX_ERROR having invoked no
\* element after k, and logs one alert, which names element k's text.
C2_ErrorPrecedence ==
    \A t \in Workers : w[t].pc \in {"run", "done"} =>
        \A k \in 0..(Len(a) - 1) : \A n \in Answers(w[t].s, k + 1) :
            NoneBefore(w[t].s, k) /\ n # NGX_REGEX_NO_MATCHED /\ n < 0 =>
                /\ IsPrefix(w[t].invoked, UpTo(k))
                /\ w[t].pc = "done" =>
                      /\ w[t].ret = NGX_ERROR
                      /\ w[t].invoked = UpTo(k)
                      /\ w[t].alerts = <<ExecAlert(n, w[t].s, a[k + 1].name)>>

\* A does not match, B is an engine error, C is never invoked
C2_Witness ==
    \E t \in Workers :
        /\ w[t].pc = "done" /\ w[t].ret = NGX_ERROR
        /\ Len(a) = 3 /\ w[t].invoked = <<0, 1>>
        /\ Len(w[t].alerts) = 1 /\ w[t].alerts[1].name = a[2].name

\* C3: the call returns NGX_DECLINED exactly when every element reports
\* NotMatched (the empty array too); then every element has been invoked
\* once, in order, and nothing is logged.
C3_DeclinedIffNoneMatched ==
    \A t \in Workers : w[t].pc = "done" =>
        /\ w[t].ret = NGX_DECLINED =>
              \A i \in 1..Len(a) : Answers(w[t].s, i) = {NGX_REGEX_NO_MATCHED}
        /\ NoneBefore(w[t].s, Len(a)) => w[t].ret = NGX_DECLINED
        /\ w[t].ret = NGX_DECLINED =>
              /\ w[t].invoked = [j \in 1..Len(a) |-> j - 1]
              /\ w[t].alerts = <<>>
        /\ w[t].ret \in {NGX_OK, NGX_ERROR, NGX_DECLINED}

\* two patterns, neither matches
C3_Witness ==
    \E t \in Workers :
        /\ w[t].pc = "done" /\ w[t].ret = NGX_DECLINED
        /\ Len(a) = 2 /\ w[t].invoked = <<0, 1>>

\* every call that has returned on an input returned the same outcome
OutcomeStable ==
    /\ \A x, y \in seen : x[1] = y[1] => x[2] = y[2]
    /\ \A t \in Workers : w[t].pc = "done" =>
          \A x \in seen : x[1] = w[t].s => x[2] = w[t].ret

\* a step of a call leaves the array, the compiled patterns, the registry
\* and its pointer, and the input of every running call as they are
ExecFrame ==
    /\ UNCHANGED <<a, code, lists, ngx_pcre_studies>>
    /\ \A t \in Workers : w[t].pc = "run" => w'[t].s = w[t].s

\* C10: a call of ngx_regex_exec_array changes neither the array, the
\* compiled patterns, the registry pointer nor the input, and calls on the
\* same array and input, repeated or interleaved between workers, all
\* return the same outcome.
C10_ExecNoSideEffect == []OutcomeStable /\ [][ExecFrame]_vars

\* two workers are in calls on the same input, both returning, after an
\* earlier call on it has returned
C10_Witness ==
    /\ w[1].pc = "done" /\ w[2].pc = "done"
    /\ w[1].s = w[2].s
    /\ w[1].count >= 1
    /\ \E x \in seen : x[1] = w[1].s
    /\ Len(a) >= 2

(***************************************************************************)
(* Properties of the registry, the teardown and the JIT pass               *)
(***************************************************************************)
Handles == 1..Len(code)

\* C4: once the teardown of a retired generation has run, every handle
\* pcre2_compile produced during that generation has been passed to
\* pcre2_code_free, whatever the compile call returned and whether or not a
\* registry was active when it ran.
C4_AllHandlesFreed ==
    \A g \in Gens :
        cycle[g] = "destroyed" /\ cleanup[g] # <<>> /\ runs[g] >= 1
            => \A h \in Handles : code[h].gen = g => code[h].frees >= 1

\* C5: running ngx_pcre_free_studies twice on the same registry snapshot
\* still calls pcre2_code_free at most once on each handle.
C5_NoDoubleFree ==
    \A g \in Gens :
        runs[g] >= 2 => \A h \in Handles : code[h].gen = g => code[h].frees <= 1

JitTries(cs) == SelectSeq(cs, LAMBDA c : c.op = "pcre2_jit_compile")

\* the log entries the failed attempts of tr on the entries es call for
RECURSIVE JitInfos(_, _, _)
JitInfos(es, tr, i) ==
    IF i > Len(es)
    THEN <<>>
    ELSE (IF tr[i].res # 0 THEN <<JitInfo(es[i].name)>> ELSE <<>>)
         \o JitInfos(es, tr, i + 1)

C6_Step(g) ==
    cycle[g] = "parsed" /\ cycle'[g] = "inited" =>
        LET es == Flat(lists[ngx_pcre_studies])
            on == NGX_HAVE_PCRE_JIT /\ rcf[g] # 0
            tr == JitTries(calls')
        IN  /\ ret' = NGX_OK
            /\ lists' = lists
            /\ ~on => /\ tr = <<>>
                      /\ log' = <<>>
                      /\ code' = code
            /\ on => /\ Len(tr) = Len(es)
                     /\ \A i \in 1..Len(es) : tr[i].arg = es[i].regex
                     /\ log' = JitInfos(es, tr, 1)
                     /\ \A i \in 1..Len(es) :
                          LET h == es[i].regex
                          IN  /\ code'[h].frees = 0
                              /\ tr[i].res # 0 => code'[h] = code[h]
                              /\ tr[i].res = 0 => code'[h].jit

\* C6: with pcre_jit on, ngx_regex_module_init attempts pcre2_jit_compile
\* exactly once on every registry entry, in registry order, whatever the
\* earlier attempts returned; a failed attempt only logs an info entry naming
\* the pattern and leaves the handle unfreed and unchanged; the pass returns
\* NGX_OK.  With pcre_jit off no attempt is made.
C6_JitFailureIsolation == [][\A g \in Gens : C6_Step(g)]_vars

\* a refused pattern is followed by an accepted one in the same pass
C6_Witness ==
    /\ cycle[1] = "inited"
    /\ ret = NGX_OK
    /\ Len(JitTries(calls)) = 2
    /\ JitTries(calls)[1].res # 0
    /\ JitTries(calls)[2].res = 0
    /\ Len(log) = 1
    /\ code[JitTries(calls)[1].arg].frees = 0

C7_Validate(g) ==
    rcf[g] = NGX_CONF_UNSET /\ rcf'[g] # NGX_CONF_UNSET /\ cycle'[g] = "created" =>
        LET asked == calls' # <<>> \/ log' # <<>> \/ rcf'[g] = 1
            cfg == calls'[1]
            supported == /\ NGX_HAVE_PCRE_JIT
                         /\ calls' # <<>>
                         /\ cfg.res = 0
                         /\ cfg.arg = 1
        IN  /\ ret' = NGX_CONF_OK
            /\ rcf'[g] \in {0, 1}
            /\ rcf'[g] = 1 <=> asked /\ supported
            /\ asked /\ ~supported => /\ Len(log') = 1
                                      /\ log'[1].level = "warn"
            /\ ~asked \/ supported => log' = <<>>

C7_Default(g) ==
    /\ cycle[g] = "none" /\ cycle'[g] = "created" => rcf'[g] = NGX_CONF_UNSET
    /\ cycle[g] = "created" /\ cycle'[g] = "parsed" =>
          /\ ret' = NGX_CONF_OK
          /\ rcf'[g] = IF rcf[g] = NGX_CONF_UNSET THEN 0 ELSE rcf[g]

C7_Enabled ==
    \A g \in Gens :
        /\ rcf[g] = 1 => NGX_HAVE_PCRE_JIT
        /\ cycle[g] \in {"parsed", "inited"} => rcf[g] \in {0, 1}

\* C7: pcre_jit is off unless set; validation leaves it on only when the
\* build has JIT and pcre2_config reports JIT; a request that cannot be met
\* is forced off with one warning and validation returns NGX_CONF_OK; a
\* request that can be met, and no request, are left as set.
C7_JitOption ==
    /\ []C7_Enabled
    /\ [][\A g \in Gens : C7_Validate(g) /\ C7_Default(g)]_vars

\* pcre_jit on was asked of an engine that reports no JIT
C7_Witness ==
    /\ NGX_HAVE_PCRE_JIT
    /\ cycle[1] = "created"
    /\ calls = <<Call("pcre2_config", 0, 0)>>
    /\ rcf[1] = 0
    /\ Len(log) = 1
    /\ log[1].level = "warn"
    /\ ret = NGX_CONF_OK

(***************************************************************************)
(* Properties of ngx_regex_compile                                         *)
(***************************************************************************)
QueryOps == <<"PCRE2_INFO_CAPTURECOUNT", "PCRE2_INFO_NAMECOUNT",
              "PCRE2_INFO_NAMEENTRYSIZE", "PCRE2_INFO_NAMETABLE">>
IsQuery(c) == \E k \in 1..4 : c.op = QueryOps[k]
IsAlloc(c) == c.op \in {"ngx_pcalloc", "ngx_list_push"}
Failed(c) ==
    \/ c.op = "pcre2_compile" /\ c.res = NULL
    \/ IsAlloc(c) /\ c.res = NULL
    \/ IsQuery(c) /\ c.res < 0
AllSucceeded(cs) == \A i \in 1..Len(cs) : ~Failed(cs[i])
Queries(cs) == SelectSeq(cs, IsQuery)
Allocs(cs) == SelectSeq(cs, IsAlloc)
\* the last operation was a call of ngx_regex_compile
Compiled == calls # <<>> /\ calls[1].op = "pcre2_compile"
\* the room of the error buffer the failed call wrote its message to
ErrMax == calls[Len(calls)].arg

\* C8: a successful compile of a pattern with N > 0 named groups leaves
\* named_captures = N and a non-null name table in the request; one of a
\* pattern with no named group (with or without other groups) leaves
\* named_captures = 0 and returns NGX_OK, whatever the request held before.
C8_NamedCaptures ==
    Compiled =>
        LET p == rc.pattern
        IN  /\ ret = NGX_OK /\ p.named > 0 =>
                  rc.named_captures = p.named /\ rc.names # NULL
            /\ ret = NGX_OK /\ p.named = 0 => rc.named_captures = 0
            /\ p.named = 0 /\ AllSucceeded(calls) => ret = NGX_OK

\* what C9 says of the result, of the order of the queries and of where
\* the sequence of queries ends
C9_Sequence ==
    LET p == rc.pattern
        qs == Queries(calls)
        as == Allocs(calls)
        n == Len(qs)
    IN  /\ ret = NGX_OK <=> AllSucceeded(calls)
        /\ ret \in {NGX_OK, NGX_ERROR}
        /\ Failed(calls[1]) => Len(calls) = 2
        /\ ~Failed(calls[1]) =>
              /\ Len(as) >= 1 /\ as[1].op = "ngx_pcalloc"
              /\ ~Failed(as[1]) =>
                    Len(as) = (IF ngx_pcre_studies # NULL THEN 2 ELSE 1)
              /\ Failed(as[1]) => Len(as) = 1
        /\ n >= 1 <=> \A i \in 1..Len(calls) :
                          ~IsQuery(calls[i]) => ~Failed(calls[i])
        /\ \A k \in 1..n : qs[k].op = QueryOps[k]
        /\ \A k \in 1..n : Failed(qs[k]) => k = n
        /\ n >= 1 /\ ~Failed(qs[1]) => (n = 1 <=> p.caps = 0)
        /\ n >= 2 /\ ~Failed(qs[2]) => (n = 2 <=> p.named = 0)
        /\ n >= 3 /\ ~Failed(qs[3]) => n = 4

\* the message of a failed call, when the buffer has room for `room` pieces
C9_Message(room) ==
    LET qs == Queries(calls)
        as == Allocs(calls)
    IN  /\ qs # <<>> /\ Failed(qs[Len(qs)]) /\ room >= 3 =>
              /\ Len(rc.err) >= 3
              /\ rc.err[1] = "pcre2_pattern_info("
              /\ rc.err[3] = qs[Len(qs)].op
        /\ as # <<>> /\ Failed(as[Len(as)]) /\ room >= 3 =>
              /\ Len(rc.err) = 3
              /\ rc.err[1] = "regex "
              /\ rc.err[3] = " compilation failed: no memory"

\* C9 as stated: NGX_OK exactly when pcre2_compile, the allocation, the
\* append to an active registry and every query issued succeeded; the
\* queries run in the fixed order and end at a zero count or at the first
\* failure; the message of a failed query names the query and the message
\* of a failed allocation is the no-memory one.
C9_CompileResult == Compiled => C9_Sequence /\ C9_Message(MaxErrLen)

\* C9 with the message as ngx_snprintf leaves it: the query is named, and
\* the no-memory words are present, when rc->err has room for them; a
\* message is never longer than rc->err.
C9_CompileResultInRoom ==
    Compiled =>
        /\ C9_Sequence
        /\ ret = NGX_ERROR =>
              /\ calls[Len(calls)].op = "ngx_snprintf"
              /\ Len(rc.err) <= ErrMax
              /\ C9_Message(ErrMax)

\* the fourth query fails after three that succeeded, with room for the message
C9_Witness ==
    /\ Compiled
    /\ ret = NGX_ERROR
    /\ Len(Queries(calls)) = 4
    /\ Failed(Queries(calls)[4])
    /\ Len(rc.err) = 4
    /\ rc.err[3] = "PCRE2_INFO_NAMETABLE"

(***************************************************************************)
(* Properties of the generations                                           *)
(***************************************************************************)
\* the entries of generation g's registry, in list order
Entries(g) == Flat(lists[g])
EntryHandles(g) == { Entries(g)[i].regex : i \in 1..Len(Entries(g)) }

\* C11: a generation whose pool is destroyed before the JIT pass has
\* completed, the abandoned load included, has had every pattern compiled
\* into its registry freed exactly once.
C11_FreedWhenTornDownEarly ==
    \A g \in Gens :
        cycle[g] = "destroyed" /\ runs[g] = 1
            => \A h \in EntryHandles(g) : code[h].frees = 1

C12_Teardown(g) ==
    runs[g] = 0 /\ runs'[g] = 1 /\ cleanup[g] # <<>> =>
        LET es == Flat(lists[cleanup[g][1]])
            hs == { es[i].regex : i \in 1..Len(es) }
        IN  /\ calls' = [i \in 1..Len(es) |-> Call("pcre2_code_free", es[i].regex, 0)]
            /\ \A h \in Handles :
                  code'[h].frees = code[h].frees + (IF h \in hs THEN 1 ELSE 0)
            /\ lists' = lists

C12_Optimizer(g) ==
    cycle[g] = "parsed" /\ cycle'[g] = "inited" /\ NGX_HAVE_PCRE_JIT /\ rcf[g] = 1 =>
        LET es == Flat(lists[ngx_pcre_studies])
            tr == JitTries(calls')
        IN  /\ [i \in 1..Len(tr) |-> tr[i].arg] = [i \in 1..Len(es) |-> es[i].regex]
            /\ lists' = lists

\* C12: one run of ngx_pcre_free_studies on a registry of n entries, however
\* they lie in the parts of the list, ends having called pcre2_code_free
\* exactly once on the handle of each entry, in order, and on no other
\* handle; the loop of ngx_regex_module_init on the same registry ends having
\* visited each entry exactly once, in the order they were appended.
C12_TraversalsComplete ==
    [][\A g \in Gens : C12_Teardown(g) /\ C12_Optimizer(g)]_vars

\* the teardown has run on a registry of a full part of 8 and a second part,
\* which the JIT pass had visited before
C12_Witness ==
    /\ runs[1] = 1
    /\ cycle[1] = "destroyed"
    /\ rcf[1] = 1
    /\ Len(lists[1]) = 2
    /\ Len(lists[1][1]) = ListNalloc
    /\ Len(calls) = ListNalloc + 1
    /\ \A h \in EntryHandles(1) : code[h].frees = 1
    /\ \E h \in Handles : h \notin EntryHandles(1) /\ code[h].frees = 0

\* the JIT pass has run on generation g's registry
Consumed(g) == cleanup[g] # <<>>

C13_Step ==
    /\ \A g \in Gens :
          /\ cycle[g] = "parsed" /\ cycle'[g] = "inited" => ngx_pcre_studies' = NULL
          /\ Consumed(g) => lists'[g] = lists[g]
    /\ ngx_pcre_studies = NULL =>
          /\ \A g \in Gens : cycle[g] # "none" => lists'[g] = lists[g]
          /\ ngx_pcre_studies' # NULL =>
                \E g \in Gens : /\ cycle[g] = "none"
                                /\ cycle'[g] = "created"
                                /\ ngx_pcre_studies' = g
                                /\ lists'[g] = ngx_list_create

\* C13: ngx_regex_module_init leaves ngx_pcre_studies NULL, and it stays NULL
\* until ngx_regex_create_conf creates the list of a new generation; a
\* compile call made in between appends to no list, and the list the pass
\* has run on is never changed again.
C13_RegistryConsumed == [][C13_Step]_vars

\* a pattern is compiled successfully after the pass, and is in no registry
C13_Witness ==
    /\ cycle[1] = "inited"
    /\ ngx_pcre_studies = NULL
    /\ Entries(1) # <<>>
    /\ Compiled
    /\ ret = NGX_OK
    /\ rc.regex # NULL
    /\ \A g \in Gens : rc.regex \notin EntryHandles(g)

\* C14: after a compile call that failed on a metadata query, no registry
\* holds an entry for the pattern of that call.
C14_FailedCompileDiscarded ==
    Compiled /\ ret = NGX_ERROR /\ (\E i \in 1..Len(calls) :
                                       IsQuery(calls[i]) /\ Failed(calls[i]))
        => \A g \in Gens : calls[1].res \notin EntryHandles(g)

\* the registry the pointer designates is that of a generation not destroyed
Active == ngx_pcre_studies # NULL /\ cycle[ngx_pcre_studies] # "destroyed"

C15_Ordered ==
    /\ \A g \in Gens :
          cycle[g] # "destroyed" =>
              \A i, j \in 1..Len(Entries(g)) :
                  i < j => Entries(g)[i].regex < Entries(g)[j].regex
    /\ \A g1, g2 \in Gens :
          g1 # g2 /\ cycle[g1] # "destroyed" /\ cycle[g2] # "destroyed"
              => EntryHandles(g1) \cap EntryHandles(g2) = {}

C15_Step ==
    /\ \A g \in Gens :
          cycle[g] # "destroyed" => IsPrefix(Flat(lists[g]), Flat(lists'[g]))
    /\ Compiled' /\ ret' = NGX_OK /\ code' # code /\ Active =>
          /\ rc'.regex = calls'[1].res
          /\ Flat(lists'[ngx_pcre_studies]) =
                Append(Flat(lists[ngx_pcre_studies]),
                       [regex |-> rc'.regex, name |-> Text(rc'.pattern)])
          /\ \A g \in Gens : g # ngx_pcre_studies => lists'[g] = lists[g]

\* C15: each successful compile made while a registry is active appends one
\* entry at its end, holding that call's handle and pattern text; no step
\* removes, reorders or overwrites an entry; the entries of a registry are in
\* the order of the compile calls and no handle is in two entries.
C15_RegistryAppendOnly == []C15_Ordered /\ [][C15_Step]_vars

\* a second successful compile has appended after the first
C15_Witness ==
    /\ Compiled
    /\ ret = NGX_OK
    /\ Active
    /\ Len(Entries(ngx_pcre_studies)) = 2
    /\ Entries(ngx_pcre_studies)[2].regex = rc.regex

\* C16: whenever ngx_pcre_studies is not NULL it designates the list of a
\* generation whose pool has not been destroyed.
C16_PointerToLiveRegistry ==
    ngx_pcre_studies # NULL => cycle[ngx_pcre_studies] # "destroyed"

\* the handles whose count of frees a step changes
Freed == { h \in Handles : code'[h].frees # code[h].frees }

C17_Step(g) ==
    runs'[g] # runs[g] =>
        /\ cleanup[g] = <<>> => Freed = {}
        /\ cleanup[g] # <<>> =>
              /\ cleanup[g] = <<g>>
              /\ Freed = EntryHandles(g)
              /\ \A h \in Freed : code[h].gen <= g

\* the freed handles of a generation were freed by its own teardown
C17_NotFreedByOlder ==
    \A h \in Handles :
        code[h].frees > 0 => \E g \in Gens : g >= code[h].gen /\ runs[g] > 0

\* C17: the teardown of generation G frees the handles in G's own registry,
\* the list its hook was registered with, and no other; none of them was
\* compiled for a newer generation, so no handle of a newer generation is
\* freed before that generation is torn down itself.
C17_GenerationIsolation ==
    []C17_NotFreedByOlder /\ [][\A g \in Gens : C17_Step(g)]_vars

\* generation 1 is torn down after generation 2 was loaded: its pattern is
\* freed and that of generation 2 is not
C17_Witness ==
    /\ cycle[1] = "destroyed"
    /\ runs[1] = 1
    /\ cycle[2] = "inited"
    /\ \E h \in EntryHandles(1) : code[h].frees = 1
    /\ \E h \in EntryHandles(2) : code[h].gen = 2 /\ code[h].frees = 0

\* C18: when ngx_pool_cleanup_add fails, ngx_regex_module_init returns
\* NGX_ERROR having made no JIT attempt and freed nothing, with the lists,
\* the handles and ngx_pcre_studies as they were.
C18_HookFailure ==
    [][\A g \in Gens :
          cycle[g] = "parsed" /\ cycle'[g] = "failed" =>
              /\ ret' = NGX_ERROR
              /\ calls' = <<Call("ngx_pool_cleanup_add", g, NULL)>>
              /\ log' = <<>>
              /\ code' = code
              /\ lists' = lists
              /\ cleanup' = cleanup
              /\ ngx_pcre_studies' = ngx_pcre_studies
              /\ ngx_pcre_studies' = g]_vars

\* the registration failed with pcre_jit on and a pattern in the registry
C18_Witness ==
    /\ cycle[1] = "failed"
    /\ ret = NGX_ERROR
    /\ calls = <<Call("ngx_pool_cleanup_add", 1, NULL)>>
    /\ rcf[1] = 1
    /\ ngx_pcre_studies = 1
    /\ Entries(1) # <<>>
    /\ cleanup[1] = <<>>

====
